---- MODULE Spec2Model ----
(***************************************************************************)
(* A model of the stellar-federation crate (src/src/lib.rs): the address   *)
(* parser, the four query-URL builders, the resolver pipeline with its     *)
(* suspension points, and the response decoder.                            *)
(*                                                                         *)
(* Text is modelled as sequences of one-character strings, so that         *)
(* splitting, percent-encoding and parsing are computed, not assumed.      *)
(***************************************************************************)
EXTENDS Integers, Sequences, FiniteSets, TLC

VARIABLES
    pc,          \* position of the call: "idle", "discovery", "fetch", "body", "done", "built"
    entry,       \* the entry point that was called
    arg,         \* its first argument (address, public key, tx id or forward parameters)
    server,      \* the caller's server Url (NoValue on the discovery path)
    url,         \* the request Url that was built (NoValue before)
    result,      \* the Result returned to the caller (NoValue while pending)
    tomlCalls,   \* domains handed to stellar_toml::resolve, in order
    fetchCalls,  \* Urls handed to client.get, in order
    steps,       \* the steps the call has run, in order
    tomlReply,   \* what stellar_toml::resolve returned (NoValue before)
    body         \* the response received: its status and, once read, its bytes

vars == <<pc, entry, arg, server, url, result, tomlCalls, fetchCalls, steps, tomlReply, body>>

NoValue == [tag |-> "None"]

\* Option::Some
Some(v) == [tag |-> "Some", v |-> v]

(***************************************************************************)
(* Bounds of the model.                                                    *)
(***************************************************************************)
MaxAddrLen == 3      \* longest address tried by the resolver
MaxParams == 2       \* longest forward-parameter list
MaxUriLen == 34      \* scaled stand-in for http::Uri's length limit (65534 bytes)
MemoTextMax == 4     \* scaled stand-in for the text-memo limit (28 bytes)
HashLen == 2         \* scaled stand-in for the hash-memo length (32 bytes)
IdMax == 99          \* scaled stand-in for u64::MAX

(***************************************************************************)
(* Sequence helpers.                                                       *)
(***************************************************************************)
SeqsUpTo(S, n) == UNION {[1..k -> S] : k \in 0..n}

Tail2(s, i) == SubSeq(s, i, Len(s))

Contains(s, c) == \E i \in 1..Len(s) : s[i] = c

IndexOf(s, c) == CHOOSE i \in 1..Len(s) : s[i] = c /\ \A j \in 1..(i-1) : s[j] # c

Count(s, c) == Cardinality({i \in 1..Len(s) : s[i] = c})

RECURSIVE Split(_, _)
\* str::split(sep): the segments between separators; "" splits into one empty segment
Split(s, c) ==
    IF ~Contains(s, c) THEN <<s>>
    ELSE LET i == IndexOf(s, c)
         IN <<SubSeq(s, 1, i-1)>> \o Split(Tail2(s, i+1), c)

(***************************************************************************)
(* application/x-www-form-urlencoded, as url::form_urlencoded applies it   *)
(* inside query_pairs_mut().append_pair and query_pairs().                 *)
(***************************************************************************)
Unreserved ==
    {"a", "b", "c", "d", "e", "f", "g", "h", "i", "j", "k", "l", "m", "n", "o", "p",
     "q", "r", "s", "t", "u", "v", "w", "x", "y", "z", "A", "B", "G", "Q",
     "0", "1", "2", "3", "4", "5", "6", "7", "8", "9", "*", "-", ".", "_"}

\* the percent-escape of a byte outside the unreserved set
Escape(c) ==
    CASE c = "&" -> <<"%", "2", "6">>
      [] c = "=" -> <<"%", "3", "D">>
      [] c = "+" -> <<"%", "2", "B">>
      [] c = "%" -> <<"%", "2", "5">>
      [] c = "#" -> <<"%", "2", "3">>
      [] c = "?" -> <<"%", "3", "F">>
      [] c = "/" -> <<"%", "2", "F">>
      [] c = ":" -> <<"%", "3", "A">>
      [] c = "!" -> <<"%", "2", "1">>
      [] OTHER -> <<"%", "7", "F">>

Escaped == {"&", "=", "+", "%", "#", "?", "/", ":", "!"}

RECURSIVE ByteSerialize(_)
ByteSerialize(s) ==
    IF s = <<>> THEN <<>>
    ELSE LET c == Head(s)
         IN (IF c \in Unreserved THEN <<c>>
             ELSE IF c = " " THEN <<"+">>
             ELSE Escape(c)) \o ByteSerialize(Tail(s))

RECURSIVE PercentDecode(_)
\* "+" is a space; %XX is the byte it names; a stray % stays as it is
PercentDecode(s) ==
    IF s = <<>> THEN <<>>
    ELSE IF Head(s) = "+" THEN <<" ">> \o PercentDecode(Tail(s))
    ELSE IF Head(s) = "%" /\ Len(s) >= 3
            /\ \E c \in Escaped : Escape(c) = SubSeq(s, 1, 3)
         THEN <<CHOOSE c \in Escaped : Escape(c) = SubSeq(s, 1, 3)>>
              \o PercentDecode(Tail2(s, 4))
    ELSE <<Head(s)>> \o PercentDecode(Tail(s))

ParsePair(seg) ==
    IF Contains(seg, "=")
    THEN LET i == IndexOf(seg, "=")
         IN <<PercentDecode(SubSeq(seg, 1, i-1)), PercentDecode(Tail2(seg, i+1))>>
    ELSE <<PercentDecode(seg), <<>>>>

RECURSIVE ParseSegments(_)
ParseSegments(segs) ==
    IF segs = <<>> THEN <<>>
    ELSE (IF Head(segs) = <<>> THEN <<>> ELSE <<ParsePair(Head(segs))>>)
         \o ParseSegments(Tail(segs))

\* Url::query_pairs: the decoded (key, value) pairs of the query, in order
query_pairs(u) ==
    IF u.query = NoValue THEN <<>> ELSE ParseSegments(Split(u.query.v, "&"))

(***************************************************************************)
(* Url values: scheme, host, path, query and fragment of the serialization *)
(***************************************************************************)
MkUrl(scheme, host, path, query, fragment) ==
    [scheme |-> scheme, host |-> host, path |-> path, query |-> query,
     fragment |-> fragment]

\* a builder that starts from an empty query, dropping the server's own
query_pairs_mut_Clears(u) == [u EXCEPT !.query = Some(<<>>)]

\* Url::query_pairs_mut: the query exists afterwards (empty when there was none)
query_pairs_mut(u) ==
    IF u.query = NoValue THEN [u EXCEPT !.query = Some(<<>>)] ELSE u

\* Serializer::append_pair: "&" when the query already has content, then k=v encoded
append_pair(u, k, v) ==
    [u EXCEPT !.query =
        Some((IF Len(@.v) > 0 THEN @.v \o <<"&">> ELSE @.v)
             \o ByteSerialize(k) \o <<"=">> \o ByteSerialize(v))]

RECURSIVE append_pairs(_, _)
append_pairs(u, ps) ==
    IF ps = <<>> THEN u
    ELSE append_pairs(append_pair(u, Head(ps)[1], Head(ps)[2]), Tail(ps))

stellar_address_request_url(address, srv) ==
    append_pair(append_pair(query_pairs_mut(srv), <<"t","y","p","e">>, <<"n","a","m","e">>),
                <<"q">>, address)

(***************************************************************************)
(* Public keys: an opaque key and its string-encoded account id.           *)
(***************************************************************************)
Keys == {"key1", "key2"}

account_id(k) == IF k = "key1" THEN <<"G", "A">> ELSE <<"G", "B">>

stellar_account_id_request_url(public_key, srv) ==
    append_pair(append_pair(query_pairs_mut(srv), <<"t","y","p","e">>, <<"i","d">>),
                <<"q">>, account_id(public_key))

stellar_transaction_id_request_url(tx_id, srv) ==
    append_pair(append_pair(query_pairs_mut(srv), <<"t","y","p","e">>, <<"t","x","i","d">>),
                <<"q">>, tx_id)

RECURSIVE Reverse(_)
Reverse(q) == IF q = <<>> THEN <<>> ELSE Reverse(Tail(q)) \o <<Head(q)>>

\* a builder that appends the caller's pairs in another order than given
stellar_forward_request_url_Reordered(forward_parameters, srv) ==
    append_pairs(append_pair(query_pairs_mut(srv), <<"t","y","p","e">>,
                             <<"f","o","r","w","a","r","d">>),
                 Reverse(forward_parameters))

stellar_forward_request_url(forward_parameters, srv) ==
    append_pairs(append_pair(query_pairs_mut(srv), <<"t","y","p","e">>,
                             <<"f","o","r","w","a","r","d">>),
                 forward_parameters)

\* Url::to_string: the serialization handed to hyper::Uri's parser
UrlToString(u) ==
    u.scheme \o <<":">>
    \o (IF u.host = NoValue THEN <<>> ELSE <<"/", "/">> \o u.host.v)
    \o u.path
    \o (IF u.query = NoValue THEN <<>> ELSE <<"?">> \o u.query.v)
    \o (IF u.fragment = NoValue THEN <<>> ELSE <<"#">> \o u.fragment.v)

\* the request fails to convert to a hyper::Uri when its text is over the limit
UriParses(u) == Len(UrlToString(u)) <= MaxUriLen

Letters == {"a", "b", "d", "e", "f", "h", "i", "k", "m", "n", "o", "p", "q", "r", "s",
            "t", "w", "x", "y"}

UpTo(s, c) == IF Contains(s, c) THEN SubSeq(s, 1, IndexOf(s, c) - 1) ELSE s

After(s, c) == IF Contains(s, c) THEN Some(Tail2(s, IndexOf(s, c) + 1)) ELSE NoValue

\* str::parse::<Url>: an absolute URL has a scheme; "//" introduces a non-empty host
ParseUrl(s) ==
    LET scheme == UpTo(s, ":")
        rest == IF Contains(s, ":") THEN Tail2(s, IndexOf(s, ":") + 1) ELSE <<>>
        fragment == After(rest, "#")
        noFrag == UpTo(rest, "#")
        query == After(noFrag, "?")
        hier == UpTo(noFrag, "?")
        hasHost == Len(hier) >= 2 /\ hier[1] = "/" /\ hier[2] = "/"
        afterSlashes == Tail2(hier, 3)
        host == UpTo(afterSlashes, "/")
        path == IF hasHost THEN Tail2(afterSlashes, Len(host) + 1) ELSE hier
    IN IF ~Contains(s, ":") \/ scheme = <<>> \/ \E i \in 1..Len(scheme) : scheme[i] \notin Letters
       THEN [ok |-> FALSE, err |-> "RelativeUrlWithoutBase"]
       ELSE IF hasHost /\ host = <<>>
       THEN [ok |-> FALSE, err |-> "EmptyHost"]
       ELSE [ok |-> TRUE,
             url |-> MkUrl(scheme,
                           IF hasHost THEN Some(host) ELSE NoValue,
                           IF hasHost /\ path = <<>> THEN <<"/">> ELSE path,
                           query, fragment)]

(***************************************************************************)
(* The response decoder.  A body is either not JSON at all or an object    *)
(* whose four fields are absent, null, a number or a string.               *)
(***************************************************************************)
JAbsent == [t |-> "absent"]
JNull == [t |-> "null"]
JNumber == [t |-> "number"]
JString(v) == [t |-> "string", v |-> v]

Ok(v) == [tag |-> "Ok", v |-> v]
Err(e, msg) == [tag |-> "Err", err |-> e, msg |-> msg]

\* a field of type String: present and a string
IsString(j) == j.t = "string"

\* a field of type Option<String>: absent or null is None, a string is Some
IsOptionalString(j) == j.t \in {"absent", "null", "string"}

OptionOf(j) == IF j.t = "string" THEN Some(j.v) ELSE NoValue

\* #[derive(Deserialize)] for IntermediateFederationResponse
IntermediateDeserialize(b) ==
    IF b.kind # "object" THEN Err("JsonError", "syntax")
    ELSE IF ~IsString(b.stellar_address) THEN Err("JsonError", "stellar_address")
    ELSE IF ~IsString(b.account_id) THEN Err("JsonError", "account_id")
    ELSE IF ~IsOptionalString(b.memo_type) THEN Err("JsonError", "memo_type")
    ELSE IF ~IsOptionalString(b.memo) THEN Err("JsonError", "memo")
    ELSE Ok([stellar_address |-> b.stellar_address.v,
             account_id |-> b.account_id.v,
             memo_type |-> OptionOf(b.memo_type),
             memo |-> OptionOf(b.memo)])

RECURSIVE TrimStart(_)
TrimStart(s) == IF s # <<>> /\ Head(s) = " " THEN TrimStart(Tail(s)) ELSE s

RECURSIVE TrimEnd(_)
TrimEnd(s) ==
    IF s # <<>> /\ s[Len(s)] = " " THEN TrimEnd(SubSeq(s, 1, Len(s) - 1)) ELSE s

\* str::trim
trim(s) == TrimEnd(TrimStart(s))

\* PublicKey::from_account_id: the key whose string-encoded id this is
from_account_id(s) ==
    IF \E k \in Keys : account_id(k) = s
    THEN Ok(CHOOSE k \in Keys : account_id(k) = s)
    ELSE Err("InvalidAccountId", "")

\* Memo::new_text: the text must fit the text-memo limit
new_text(value) ==
    IF Len(value) > MemoTextMax THEN Err("InvalidMemoText", "")
    ELSE Ok([kind |-> "Text", v |-> value])

\* Memo::new_id
new_id(id) == [kind |-> "Id", v |-> id]

Digits == {"0", "1", "2", "3", "9"}

DigitVal(c) ==
    CASE c = "0" -> 0 [] c = "1" -> 1 [] c = "2" -> 2 [] c = "3" -> 3 [] OTHER -> 9

RECURSIVE DecimalValue(_)
DecimalValue(s) ==
    IF s = <<>> THEN 0
    ELSE DecimalValue(SubSeq(s, 1, Len(s) - 1)) * 10 + DigitVal(s[Len(s)])

\* str::parse::<u64>: an optional "+", then one or more digits, no overflow
ParseU64(s) ==
    LET digits == IF s # <<>> /\ Head(s) = "+" THEN Tail(s) ELSE s
    IN IF digits = <<>> \/ \E i \in 1..Len(digits) : digits[i] \notin Digits
       THEN Err("ParseIntError", "")
       ELSE IF DecimalValue(digits) > IdMax THEN Err("ParseIntError", "overflow")
       ELSE Ok(DecimalValue(digits))

Base64Alphabet == {"A", "B", "Q", "a", "0", "1", "2", "3", "9", "+", "/"}

Base64Val(c) ==
    CASE c = "A" -> 0 [] c = "B" -> 1 [] c = "Q" -> 16 [] c = "a" -> 26
      [] c = "0" -> 52 [] c = "1" -> 53 [] c = "2" -> 54 [] c = "3" -> 55
      [] c = "9" -> 61 [] c = "+" -> 62 [] OTHER -> 63

RECURSIVE Base64Groups(_)
\* the bytes of whole four-character groups; the last may end in "=" or "=="
Base64Groups(s) ==
    IF s = <<>> THEN <<>>
    ELSE LET a == Base64Val(s[1])
             b == Base64Val(s[2])
             c == Base64Val(s[3])
             d == Base64Val(s[4])
         IN IF s[3] = "=" THEN <<(a * 64 + b) \div 16>>
            ELSE IF s[4] = "="
            THEN LET v == a * 4096 + b * 64 + c
                 IN <<v \div 1024, (v \div 4) % 256>>
            ELSE LET v == a * 262144 + b * 4096 + c * 64 + d
                 IN <<v \div 65536, (v \div 256) % 256, v % 256>>
                    \o Base64Groups(Tail2(s, 5))

\* base64::decode: padded standard alphabet, padding only at the end, no stray bits
Base64Decode(s) ==
    LET n == Len(s)
        pad == IF n >= 2 /\ s[n] = "=" /\ s[n-1] = "=" THEN 2
               ELSE IF n >= 1 /\ s[n] = "=" THEN 1 ELSE 0
        data == SubSeq(s, 1, n - pad)
    IN IF n % 4 # 0 \/ \E i \in 1..Len(data) : data[i] \notin Base64Alphabet
       THEN Err("DecodeError", "")
       ELSE IF pad = 2 /\ Base64Val(data[Len(data)]) % 16 # 0
       THEN Err("DecodeError", "last symbol")
       ELSE IF pad = 1 /\ Base64Val(data[Len(data)]) % 4 # 0
       THEN Err("DecodeError", "last symbol")
       ELSE Ok(Base64Groups(s))

\* Memo::new_hash: the bytes must have the hash-memo length
new_hash(hash) ==
    IF Len(hash) # HashLen THEN Err("InvalidMemoHash", "")
    ELSE Ok([kind |-> "Hash", v |-> hash])

TextT == <<"t", "e", "x", "t">>
IdT == <<"i", "d">>
HashT == <<"h", "a", "s", "h">>

\* a match whose fallback arm yields no memo
DecodeMemo_Permissive(memo_type, memo) ==
    IF memo_type = NoValue /\ memo = NoValue THEN Ok(NoValue)
    ELSE IF memo_type # NoValue /\ memo # NoValue /\ memo_type.v = TextT
    THEN IF new_text(memo.v).tag = "Ok" THEN Ok(Some(new_text(memo.v).v))
         ELSE Err("JsonError", "Malformed text memo")
    ELSE IF memo_type # NoValue /\ memo # NoValue /\ memo_type.v = IdT
    THEN IF ParseU64(memo.v).tag = "Ok" THEN Ok(Some(new_id(ParseU64(memo.v).v)))
         ELSE Err("JsonError", "Malformed id memo")
    ELSE IF memo_type # NoValue /\ memo # NoValue /\ memo_type.v = HashT
    THEN IF Base64Decode(memo.v).tag # "Ok"
         THEN Err("JsonError", "Malformed base64 hash memo")
         ELSE IF new_hash(Base64Decode(memo.v).v).tag = "Ok"
         THEN Ok(Some(new_hash(Base64Decode(memo.v).v).v))
         ELSE Err("JsonError", "Malformed hash memo")
    ELSE Ok(NoValue)

\* the match on (memo_type, memo)
DecodeMemo(memo_type, memo) ==
    IF memo_type = NoValue /\ memo = NoValue THEN Ok(NoValue)
    ELSE IF memo_type # NoValue /\ memo # NoValue /\ memo_type.v = TextT
    THEN IF new_text(memo.v).tag = "Ok" THEN Ok(Some(new_text(memo.v).v))
         ELSE Err("JsonError", "Malformed text memo")
    ELSE IF memo_type # NoValue /\ memo # NoValue /\ memo_type.v = IdT
    THEN IF ParseU64(memo.v).tag = "Ok" THEN Ok(Some(new_id(ParseU64(memo.v).v)))
         ELSE Err("JsonError", "Malformed id memo")
    ELSE IF memo_type # NoValue /\ memo # NoValue /\ memo_type.v = HashT
    THEN IF Base64Decode(memo.v).tag # "Ok"
         THEN Err("JsonError", "Malformed base64 hash memo")
         ELSE IF new_hash(Base64Decode(memo.v).v).tag = "Ok"
         THEN Ok(Some(new_hash(Base64Decode(memo.v).v).v))
         ELSE Err("JsonError", "Malformed hash memo")
    ELSE Err("JsonError", "Invalid memo_type or memo")

\* a decoder that returns the record without a memo when the memo is invalid
deserialize_DropsBadMemo(b) ==
    LET intermediate == IntermediateDeserialize(b)
    IN IF intermediate.tag # "Ok" THEN intermediate
       ELSE LET key == from_account_id(trim(intermediate.v.account_id))
                memo == DecodeMemo(intermediate.v.memo_type, intermediate.v.memo)
            IN IF key.tag # "Ok" THEN Err("JsonError", "Malformed account_id")
               ELSE Ok([stellar_address |-> intermediate.v.stellar_address,
                        account_id |-> key.v,
                        memo |-> IF memo.tag = "Ok" THEN memo.v ELSE NoValue])

\* impl Deserialize for FederationResponse
deserialize(b) ==
    LET intermediate == IntermediateDeserialize(b)
    IN IF intermediate.tag # "Ok" THEN intermediate
       ELSE LET key == from_account_id(trim(intermediate.v.account_id))
                memo == DecodeMemo(intermediate.v.memo_type, intermediate.v.memo)
            IN IF key.tag # "Ok" THEN Err("JsonError", "Malformed account_id")
               ELSE IF memo.tag # "Ok" THEN memo
               ELSE Ok([stellar_address |-> intermediate.v.stellar_address,
                        account_id |-> key.v,
                        memo |-> memo.v])

(***************************************************************************)
(* Inputs of the resolver and replies of its collaborators.                *)
(***************************************************************************)
AddrChars == {"n", "*", "&"}

Addresses == SeqsUpTo(AddrChars, MaxAddrLen)

TxIds == {<<>>, <<"3", "9">>, <<"3", "9", "b", "e", "7", "a", "5", "a", "0", "0", "1">>}

ParamPairs == {<<k, v>> : k \in {<<"q">>, <<"a">>}, v \in {<<"x">>, <<>>}}

ForwardParams == SeqsUpTo(ParamPairs, MaxParams)

\* strings a stellar.toml may publish as FEDERATION_SERVER
ServerStrings ==
    { <<"h","t","t","p","s",":","/","/","s","/","f">>,
      <<"h","t","t","p","s",":","/","/","s">>,
      <<"h","t","t","p","s",":","/","/","s","/","f","?","a","=","1">>,
      <<"h","t","t","p","s",":","/","/","s","/","f","?","q","=","x","&","t","y","p","e","=","i","d">>,
      <<"h","t","t","p","s",":","/","/">>,
      <<"/","f">>,
      <<>> }

Servers == {ParseUrl(t).url : t \in {x \in ServerStrings : ParseUrl(x).ok}}

TomlReplies ==
    {[ok |-> FALSE]}
    \cup {[ok |-> TRUE, federation_server |-> NoValue]}
    \cup {[ok |-> TRUE, federation_server |-> Some(t)] : t \in ServerStrings}

Statuses == {100, 199, 200, 204, 299, 300, 304, 399, 400, 404, 499, 500, 503, 599, 600, 999}

\* StatusCode::is_success
is_success(status) == status >= 200 /\ status < 300

\* StatusCode::is_client_error
is_client_error(status) == status >= 400 /\ status < 500

GetReplies == {[ok |-> FALSE]} \cup {[ok |-> TRUE, status |-> st] : st \in Statuses}

ErrResponse(e, status) == [tag |-> "Err", err |-> e, response |-> [status |-> status]]

MkBody(sa, acc, mt, m) ==
    [kind |-> "object", stellar_address |-> sa, account_id |-> acc, memo_type |-> mt,
     memo |-> m]

Garbage == [kind |-> "garbage"]

ReplyBodies ==
    {Garbage}
    \cup {MkBody(JString(<<"n", "*", "d">>), acc, mt, m) :
            acc \in {JString(<<"G", "A">>), JString(<<"G", "x">>)},
            mt \in {JAbsent, JString(TextT), JString(IdT)},
            m \in {JAbsent, JString(<<"1">>), JString(<<"a">>)}}

BodyReplies == {[ok |-> FALSE]} \cup {[ok |-> TRUE, bytes |-> b] : b \in ReplyBodies}

(***************************************************************************)
(* The resolver.  Each action is the code between two suspension points.   *)
(***************************************************************************)
\* a resolve_url that issues the GET a second time
ResolveUrlStart_Retry(u, before) ==
    /\ url' = u
    /\ IF UriParses(u)
       THEN /\ fetchCalls' = Append(Append(fetchCalls, u), u)
            /\ steps' = before \o <<"fetch", "fetch">>
            /\ pc' = "fetch"
            /\ result' = result
       ELSE /\ fetchCalls' = fetchCalls
            /\ steps' = before
            /\ pc' = "done"
            /\ result' = Err("InvalidUri", "")

\* resolve_url up to client.get(uri).await: convert the Url, then issue the GET
ResolveUrlStart(u, before) ==
    /\ url' = u
    /\ IF UriParses(u)
       THEN /\ fetchCalls' = Append(fetchCalls, u)
            /\ steps' = before \o <<"fetch">>
            /\ pc' = "fetch"
            /\ result' = result
       ELSE /\ fetchCalls' = fetchCalls
            /\ steps' = before
            /\ pc' = "done"
            /\ result' = Err("InvalidUri", "")

\* a parser that reads the first two segments and ignores any further ones
ParseAddress_IgnoresRest(address) ==
    LET address_parts == Split(address, "*")
    IN IF Len(address_parts) >= 2
       THEN [ok |-> TRUE, domain |-> address_parts[2]]
       ELSE [ok |-> FALSE]

\* a parser that hands on the local name in place of the domain
ParseAddress_PassesName(address) ==
    LET address_parts == Split(address, "*")
    IN IF Len(address_parts) = 2
       THEN [ok |-> TRUE, domain |-> address_parts[1]]
       ELSE [ok |-> FALSE]

\* address.split("*") matched against (Some(_name), Some(domain), None)
ParseAddress(address) ==
    LET address_parts == Split(address, "*")
    IN IF Len(address_parts) = 2
       THEN [ok |-> TRUE, domain |-> address_parts[2]]
       ELSE [ok |-> FALSE]

\* resolve_stellar_address up to stellar_toml::resolve(&domain).await
CallResolveStellarAddress ==
    \E address \in Addresses :
        /\ pc = "idle"
        /\ entry' = "address"
        /\ arg' = address
        /\ IF ParseAddress(address).ok
           THEN /\ tomlCalls' = Append(tomlCalls, ParseAddress(address).domain)
                /\ steps' = <<"parse", "discovery">>
                /\ pc' = "discovery"
                /\ result' = result
           ELSE /\ tomlCalls' = tomlCalls
                /\ steps' = <<"parse">>
                /\ pc' = "done"
                /\ result' = Err("InvalidStellarAddress", "")
        /\ UNCHANGED <<server, url, fetchCalls, tomlReply, body>>

\* a resolver that parses an empty string when no server is published
DiscoveryOutcome_UnwrapOrDefault(reply) ==
    IF ~reply.ok THEN Err("TomlResolveError", "")
    ELSE LET text == IF reply.federation_server = NoValue THEN <<>>
                     ELSE reply.federation_server.v
         IN IF ~ParseUrl(text).ok THEN Err("InvalidUrl", ParseUrl(text).err)
            ELSE Ok(ParseUrl(text).url)

\* what resolve_stellar_address makes of the lookup's reply: an error, or the server Url
DiscoveryOutcome(reply) ==
    IF ~reply.ok THEN Err("TomlResolveError", "")
    ELSE IF reply.federation_server = NoValue THEN Err("MissingFederationServer", "")
    ELSE IF ~ParseUrl(reply.federation_server.v).ok
    THEN Err("InvalidUrl", ParseUrl(reply.federation_server.v).err)
    ELSE Ok(ParseUrl(reply.federation_server.v).url)

\* resolve_stellar_address after the stellar.toml lookup returns
TomlReturns ==
    \E reply \in TomlReplies :
        /\ pc = "discovery"
        /\ tomlReply' = reply
        /\ IF DiscoveryOutcome(reply).tag = "Err"
           THEN /\ pc' = "done"
                /\ result' = DiscoveryOutcome(reply)
                /\ UNCHANGED <<server, url, fetchCalls, steps>>
           ELSE /\ server' = DiscoveryOutcome(reply).v
                /\ ResolveUrlStart(stellar_address_request_url(arg, server'), steps)
        /\ UNCHANGED <<entry, arg, tomlCalls, body>>

\* resolve_stellar_address_from_server up to the GET
CallResolveStellarAddressFromServer ==
    \E address \in Addresses, srv \in Servers :
        /\ pc = "idle"
        /\ entry' = "address_from_server"
        /\ arg' = address
        /\ server' = srv
        /\ ResolveUrlStart(stellar_address_request_url(address, srv), <<>>)
        /\ UNCHANGED <<tomlCalls, tomlReply, body>>

\* resolve_stellar_account_id up to the GET
CallResolveStellarAccountId ==
    \E public_key \in Keys, srv \in Servers :
        /\ pc = "idle"
        /\ entry' = "account_id"
        /\ arg' = public_key
        /\ server' = srv
        /\ ResolveUrlStart(stellar_account_id_request_url(public_key, srv), <<>>)
        /\ UNCHANGED <<tomlCalls, tomlReply, body>>

\* resolve_stellar_transaction_id up to the GET
CallResolveStellarTransactionId ==
    \E tx_id \in TxIds, srv \in Servers :
        /\ pc = "idle"
        /\ entry' = "transaction_id"
        /\ arg' = tx_id
        /\ server' = srv
        /\ ResolveUrlStart(stellar_transaction_id_request_url(tx_id, srv), <<>>)
        /\ UNCHANGED <<tomlCalls, tomlReply, body>>

\* resolve_stellar_forward up to the GET
CallResolveStellarForward ==
    \E forward_parameters \in ForwardParams, srv \in Servers :
        /\ pc = "idle"
        /\ entry' = "forward"
        /\ arg' = forward_parameters
        /\ server' = srv
        /\ ResolveUrlStart(stellar_forward_request_url(forward_parameters, srv), <<>>)
        /\ UNCHANGED <<tomlCalls, tomlReply, body>>

\* a classification that fails only on 4xx and 5xx and reads the body otherwise
Classify_OnlyErrorClasses(status) ==
    IF is_client_error(status) THEN "ClientError"
    ELSE IF status >= 500 /\ status < 600 THEN "ServerError"
    ELSE "body"

\* what resolve_url does with a received status: read the body, or fail
Classify(status) ==
    IF is_success(status) THEN "body"
    ELSE IF is_client_error(status) THEN "ClientError"
    ELSE "ServerError"

\* resolve_url after client.get(uri).await returns
GetReturns ==
    \E reply \in GetReplies :
        /\ pc = "fetch"
        /\ IF ~reply.ok
           THEN /\ pc' = "done"
                /\ result' = Err("HyperError", "get")
           ELSE IF Classify(reply.status) = "body"
           THEN /\ pc' = "body"
                /\ result' = result
           ELSE /\ pc' = "done"
                /\ result' = ErrResponse(Classify(reply.status), reply.status)
        /\ body' = (IF reply.ok THEN [status |-> reply.status] ELSE body)
        /\ UNCHANGED <<entry, arg, server, url, tomlCalls, fetchCalls, steps, tomlReply>>

\* resolve_url after hyper::body::to_bytes(response).await returns
BodyReturns ==
    \E reply \in BodyReplies :
        /\ pc = "body"
        /\ pc' = "done"
        /\ IF ~reply.ok
           THEN /\ result' = Err("HyperError", "body")
                /\ steps' = steps
                /\ body' = body
           ELSE /\ result' = deserialize(reply.bytes)
                /\ steps' = Append(steps, "decode")
                /\ body' = [status |-> body.status, bytes |-> reply.bytes]
        /\ UNCHANGED <<entry, arg, server, url, tomlCalls, fetchCalls, tomlReply>>

Init ==
    /\ pc = "idle"
    /\ entry = "none"
    /\ arg = NoValue
    /\ server = NoValue
    /\ url = NoValue
    /\ result = NoValue
    /\ tomlCalls = <<>>
    /\ fetchCalls = <<>>
    /\ steps = <<>>
    /\ tomlReply = NoValue
    /\ body = NoValue

Next ==
    \/ CallResolveStellarAddress
    \/ TomlReturns
    \/ CallResolveStellarAddressFromServer
    \/ CallResolveStellarAccountId
    \/ CallResolveStellarTransactionId
    \/ CallResolveStellarForward
    \/ GetReturns
    \/ BodyReturns

Spec == Init /\ [][Next]_vars

(***************************************************************************)
(* The query builders on their own, over a wider range of servers and      *)
(* parameters than the resolver is run with.                               *)
(***************************************************************************)
UrlServerStrings ==
    ServerStrings \cup
    { <<"h","t","t","p","s",":","/","/","s","/","f","?">>,
      <<"h","t","t","p","s",":","/","/","s","/","f","?","a","=","1","&">>,
      <<"h","t","t","p","s",":","/","/","s","/","f","?","a","=","1","#","x">>,
      <<"h","t","t","p","s",":","/","/","s","/","f","?","a","%","2","6","=","1","+","2","&","b">>,
      <<"h","t","t","p",":","/","/","s","/","f","/","d","#","x">> }

UrlServers == {ParseUrl(t).url : t \in {x \in UrlServerStrings : ParseUrl(x).ok}}

UrlAddresses == SeqsUpTo({"n", "*", "&", " ", "="}, MaxAddrLen)

UrlParamPairs ==
    {<<k, v>> : k \in {<<"q">>, <<"t","y","p","e">>, <<"a">>, <<"a","&">>},
                v \in {<<"x">>, <<>>, <<"1","=","2">>}}

UrlForwardParams == SeqsUpTo(UrlParamPairs, MaxParams)

InitUrl ==
    /\ pc = "idle"
    /\ entry = "none"
    /\ arg = NoValue
    /\ server \in UrlServers
    /\ url = NoValue
    /\ result = NoValue
    /\ tomlCalls = <<>>
    /\ fetchCalls = <<>>
    /\ steps = <<>>
    /\ tomlReply = NoValue
    /\ body = NoValue

BuildAddressUrl ==
    \E address \in UrlAddresses :
        /\ pc = "idle"
        /\ pc' = "built"
        /\ entry' = "address_from_server"
        /\ arg' = address
        /\ url' = stellar_address_request_url(address, server)
        /\ UNCHANGED <<server, result, tomlCalls, fetchCalls, steps, tomlReply, body>>

BuildAccountIdUrl ==
    \E public_key \in Keys :
        /\ pc = "idle"
        /\ pc' = "built"
        /\ entry' = "account_id"
        /\ arg' = public_key
        /\ url' = stellar_account_id_request_url(public_key, server)
        /\ UNCHANGED <<server, result, tomlCalls, fetchCalls, steps, tomlReply, body>>

BuildTransactionIdUrl ==
    \E tx_id \in TxIds :
        /\ pc = "idle"
        /\ pc' = "built"
        /\ entry' = "transaction_id"
        /\ arg' = tx_id
        /\ url' = stellar_transaction_id_request_url(tx_id, server)
        /\ UNCHANGED <<server, result, tomlCalls, fetchCalls, steps, tomlReply, body>>

BuildForwardUrl ==
    \E forward_parameters \in UrlForwardParams :
        /\ pc = "idle"
        /\ pc' = "built"
        /\ entry' = "forward"
        /\ arg' = forward_parameters
        /\ url' = stellar_forward_request_url(forward_parameters, server)
        /\ UNCHANGED <<server, result, tomlCalls, fetchCalls, steps, tomlReply, body>>

NextUrl ==
    \/ BuildAddressUrl
    \/ BuildAccountIdUrl
    \/ BuildTransactionIdUrl
    \/ BuildForwardUrl

SpecUrl == InitUrl /\ [][NextUrl]_vars

(***************************************************************************)
(* The decoder on its own, over a wider range of bodies.                   *)
(***************************************************************************)
MemoTexts ==
    SeqsUpTo({"1", "9", "+", "a"}, 2)
    \cup [1..4 -> {"A", "Q", "="}]
    \cup { <<"1", "9", "9">>, <<"9", "9", "9">>, <<"0", "1", "9">>, <<"-", "1">>,
           <<"1", "1", "1", "1">>, <<"1", "1", "1", "=">>, <<"1", "1", "=", "=">>,
           <<"A", "A", "B", "=">>, <<"A", "B", "=", "=">>, <<"A", "A", "A">>,
           <<"!", "!", "!", "!">>,
           <<"A", "A", "A", "A", "A", "A", "=", "=">>,
           <<"A", "A", "A", "A", "Q", "Q", "Q", "=">>,
           [i \in 1..(MemoTextMax + 1) |-> "a"],
           [i \in 1..MemoTextMax |-> "a"] }

MemoTypes ==
    {JAbsent, JNull, JNumber, JString(TextT), JString(IdT), JString(HashT),
     JString(<<"T", "e", "x", "t">>), JString(<<"r", "e", "t", "u", "r", "n">>),
     JString(<<>>)}

MemoJsons == {JAbsent, JNull, JNumber} \cup {JString(m) : m \in MemoTexts}

AccountJsons ==
    {JAbsent, JNull, JNumber, JString(<<"G", "A">>), JString(<<" ", "G", "B", " ">>),
     JString(<<"G", " ", "A">>), JString(<<"G", "x">>), JString(<<>>)}

AddressJsons == {JAbsent, JNumber, JString(<<"n", "*", "d">>)}

DecodeBodies ==
    {Garbage}
    \cup {MkBody(sa, acc, mt, m) :
            sa \in AddressJsons, acc \in AccountJsons, mt \in MemoTypes, m \in MemoJsons}

InitDecode ==
    /\ pc = "body"
    /\ entry = "none"
    /\ arg = NoValue
    /\ server = NoValue
    /\ url = NoValue
    /\ result = NoValue
    /\ tomlCalls = <<>>
    /\ fetchCalls = <<>>
    /\ steps = <<>>
    /\ tomlReply = NoValue
    /\ body \in {[status |-> 200, bytes |-> b] : b \in DecodeBodies}

\* serde_json::from_slice::<FederationResponse>(&bytes)
FromSlice ==
    /\ pc = "body"
    /\ pc' = "done"
    /\ result' = deserialize(body.bytes)
    /\ steps' = Append(steps, "decode")
    /\ UNCHANGED <<entry, arg, server, url, tomlCalls, fetchCalls, tomlReply, body>>

NextDecode == FromSlice

SpecDecode == InitDecode /\ [][NextDecode]_vars

(***************************************************************************)
(* Properties of the resolver (specification Spec).                        *)
(***************************************************************************)
IsPrefix(a, b) == Len(a) <= Len(b) /\ a = SubSeq(b, 1, Len(a))

ServerGiven == {"address_from_server", "account_id", "transaction_id", "forward"}

\* C1: a resolve_stellar_address call whose address has no "*" or more than one
\* has failed with InvalidStellarAddress without any discovery lookup or fetch.
C1_InvalidAddressNoNetwork ==
    (entry = "address" /\ Count(arg, "*") # 1)
        => /\ pc = "done"
           /\ result = Err("InvalidStellarAddress", "")
           /\ tomlCalls = <<>>
           /\ fetchCalls = <<>>

C1_Witness ==
    /\ entry = "address"
    /\ Count(arg, "*") >= 2
    /\ pc = "done"
    /\ result = Err("InvalidStellarAddress", "")

\* C2: resolve_stellar_address goes on to discovery only for an address with
\* exactly one "*" between a non-empty local name and a non-empty domain; an
\* address with an empty segment has failed with InvalidStellarAddress.
C2_EmptySegmentRejected ==
    entry = "address"
        => LET wellFormed == /\ Count(arg, "*") = 1
                             /\ arg[1] # "*"
                             /\ arg[Len(arg)] # "*"
           IN /\ tomlCalls # <<>> => wellFormed
              /\ ~wellFormed => result = Err("InvalidStellarAddress", "")

\* C4: once a status has been received, a success status leads to reading and
\* decoding the body, a 4xx status has failed with ClientError carrying the
\* response, any other status has failed with ServerError carrying the
\* response; a decode or a record implies a success status.
C4_StatusClassification ==
    (body # NoValue)
        => LET st == body.status
           IN /\ (st >= 200 /\ st <= 299)
                    => /\ pc \in {"body", "done"}
                       /\ result # NoValue
                            => /\ pc = "done"
                               /\ \/ result.tag = "Ok"
                                  \/ result.err \notin {"ClientError", "ServerError"}
              /\ (st >= 400 /\ st <= 499)
                    => (pc = "done" /\ result = ErrResponse("ClientError", st))
              /\ (st < 200 \/ (st >= 300 /\ st <= 399) \/ st >= 500)
                    => (pc = "done" /\ result = ErrResponse("ServerError", st))
              /\ (\E i \in 1..Len(steps) : steps[i] = "decode")
                    => (st >= 200 /\ st <= 299)
              /\ (result # NoValue /\ result.tag = "Ok") => (st >= 200 /\ st <= 299)

C4_Witness ==
    /\ body # NoValue
    /\ body.status = 304
    /\ result = ErrResponse("ServerError", 304)

\* C5: resolve_stellar_address with an address holding exactly one "*" makes
\* one discovery lookup, with the text after the "*" (so the address is local
\* name, "*", that text), and the request Url it then builds ends with
\* type=name and q=<the whole address>, after the server's own pairs.
C5_DomainToDiscoveryAddressToQuery ==
    (entry = "address" /\ (tomlCalls # <<>> \/ Count(arg, "*") = 1))
        => /\ Len(tomlCalls) = 1
           /\ LET domain == tomlCalls[1]
                  name == SubSeq(arg, 1, Len(arg) - Len(domain) - 1)
              IN /\ Len(arg) >= Len(domain) + 1
                 /\ arg = name \o <<"*">> \o domain
                 /\ ~Contains(domain, "*")
                 /\ ~Contains(name, "*")
                 /\ domain # arg
           /\ url # NoValue
                => query_pairs(url) =
                       query_pairs(server)
                       \o << <<(<<"t","y","p","e">>), (<<"n","a","m","e">>)>>,
                             <<(<<"q">>), arg>> >>

C5_Witness ==
    /\ entry = "address"
    /\ arg = <<"&", "*", "n">>
    /\ tomlCalls = << <<"n">> >>
    /\ fetchCalls # <<>>
    /\ server.query # NoValue

\* C8: once the discovery lookup has returned, a failed lookup has ended the
\* call with TomlResolveError, a document without a federation server with
\* MissingFederationServer, a server string that is no absolute URL with
\* InvalidUrl; in all three no fetch was issued.
C8_DiscoveryFailures ==
    (tomlReply # NoValue)
        => LET failed == ~tomlReply.ok
               missing == tomlReply.ok /\ tomlReply.federation_server = NoValue
               invalid == /\ tomlReply.ok
                          /\ tomlReply.federation_server # NoValue
                          /\ ~ParseUrl(tomlReply.federation_server.v).ok
           IN /\ failed => result = Err("TomlResolveError", "")
              /\ missing => result = Err("MissingFederationServer", "")
              /\ invalid => (result # NoValue /\ result.err = "InvalidUrl")
              /\ (failed \/ missing \/ invalid)
                    => (pc = "done" /\ fetchCalls = <<>> /\ url = NoValue)

C8_Witness ==
    /\ tomlReply # NoValue
    /\ tomlReply.ok
    /\ tomlReply.federation_server = NoValue
    /\ result = Err("MissingFederationServer", "")
    /\ fetchCalls = <<>>

AddressSteps == <<"parse", "discovery", "fetch", "decode">>

C10_Common ==
    /\ entry = "address"
          => /\ IsPrefix(steps, AddressSteps)
             /\ Len(tomlCalls) <= 1
             /\ Len(fetchCalls) <= 1
             /\ Len(tomlCalls) = Cardinality({i \in 1..Len(steps) : steps[i] = "discovery"})
             /\ Len(fetchCalls) = Cardinality({i \in 1..Len(steps) : steps[i] = "fetch"})
    /\ (result # NoValue) => pc = "done"
    /\ entry \in ServerGiven
          => /\ tomlCalls = <<>>
             /\ \A i \in 1..Len(steps) : steps[i] # "discovery"

\* C10 as stated: the steps of resolve_stellar_address run in order, each
\* network call at most once, a result ends the call; the server-given entry
\* points make no discovery lookup and issue exactly one fetch.
C10_ExactlyOneFetch ==
    /\ C10_Common
    /\ entry \in ServerGiven => Len(fetchCalls) = 1

\* C10, amended: as above, except that a server-given entry point issues one
\* fetch unless the request Url does not convert to a Uri, in which case it
\* fails with InvalidUri and issues none; and no step is taken once the call
\* has its result.
C10_OrderedAtMostOnce ==
    /\ [](/\ C10_Common
          /\ entry \in ServerGiven
                => Len(fetchCalls) = (IF result = Err("InvalidUri", "") THEN 0 ELSE 1))
    /\ [][result = NoValue]_vars

C10_Witness ==
    /\ entry = "address"
    /\ steps = AddressSteps
    /\ pc = "done"
    /\ result.tag = "Ok"

C10_WitnessServerGiven ==
    /\ entry = "transaction_id"
    /\ result = Err("InvalidUri", "")
    /\ fetchCalls = <<>>

(***************************************************************************)
(* Properties of the query builders (specification SpecUrl).               *)
(***************************************************************************)
TypeK == <<"t", "y", "p", "e">>
QK == <<"q">>

HasKey(pairs, k) == \E i \in 1..Len(pairs) : pairs[i][1] = k

\* the pairs each builder is to add, by entry point and argument
OwnPairs(e, a) ==
    CASE e = "address_from_server" -> << <<TypeK, <<"n","a","m","e">>>>, <<QK, a>> >>
      [] e = "account_id" ->
            << <<TypeK, <<"i","d">>>>,
               <<QK, IF a = "key1" THEN <<"G", "A">> ELSE <<"G", "B">>>> >>
      [] e = "transaction_id" -> << <<TypeK, <<"t","x","i","d">>>>, <<QK, a>> >>
      [] OTHER -> << <<TypeK, <<"f","o","r","w","a","r","d">>>> >> \o a

\* C6 as stated: the forward Url has the server's pairs, then type=forward,
\* then the caller's pairs in the caller's order, and no pair of it is keyed q.
C6_NeverQ ==
    (pc = "built" /\ entry = "forward")
        => /\ query_pairs(url) =
                  query_pairs(server) \o << <<TypeK, <<"f","o","r","w","a","r","d">>>> >> \o arg
           /\ ~HasKey(query_pairs(url), QK)

\* C6, amended: the forward Url has the server's pairs, then type=forward, then
\* the caller's pairs in the caller's order; the builder adds no q of its own,
\* so the Url has a pair keyed q exactly when the server Url or the caller's
\* parameters have one.
C6_ForwardPairsInOrder ==
    (pc = "built" /\ entry = "forward")
        => /\ query_pairs(url) =
                  query_pairs(server) \o << <<TypeK, <<"f","o","r","w","a","r","d">>>> >> \o arg
           /\ HasKey(query_pairs(url), QK)
                  <=> (HasKey(query_pairs(server), QK) \/ HasKey(arg, QK))

C6_Witness ==
    /\ pc = "built"
    /\ entry = "forward"
    /\ arg = << <<(<<"a","&">>), (<<"1","=","2">>)>>, <<QK, <<"x">>>> >>
    /\ server.query # NoValue
    /\ HasKey(query_pairs(url), QK)

\* C7: a built Url has the server's scheme, host, path and fragment; its query
\* text starts with the server's query text; its pairs are the server's pairs,
\* unchanged and in place, followed by the builder's own; and the server value
\* the caller passed stays as it was.
C7_BaseUrlPreserved ==
    /\ [](pc = "built"
            => /\ url.scheme = server.scheme
               /\ url.host = server.host
               /\ url.path = server.path
               /\ url.fragment = server.fragment
               /\ url.query # NoValue
               /\ server.query # NoValue => IsPrefix(server.query.v, url.query.v)
               /\ query_pairs(url) = query_pairs(server) \o OwnPairs(entry, arg))
    /\ [][server' = server]_vars

C7_Witness ==
    /\ pc = "built"
    /\ entry = "address_from_server"
    /\ arg = <<"n", "*", "&">>
    /\ Len(query_pairs(server)) = 2
    /\ Len(query_pairs(url)) = 4
    /\ server.query.v # <<>>

(***************************************************************************)
(* Properties of the decoder (specification SpecDecode).                   *)
(***************************************************************************)
JIsNone(j) == j.t \in {"absent", "null"}

DigitChar(d) ==
    CASE d = 0 -> "0" [] d = 1 -> "1" [] d = 2 -> "2" [] d = 3 -> "3" [] d = 4 -> "4"
      [] d = 5 -> "5" [] d = 6 -> "6" [] d = 7 -> "7" [] d = 8 -> "8" [] OTHER -> "9"

RECURSIVE ToDecimal(_)
ToDecimal(n) ==
    IF n < 10 THEN <<DigitChar(n)>> ELSE ToDecimal(n \div 10) \o <<DigitChar(n % 10)>>

RECURSIVE StripZeros(_)
StripZeros(t) == IF Len(t) > 1 /\ Head(t) = "0" THEN StripZeros(Tail(t)) ELSE t

\* the text writes the number n: decimal digits, leading zeros and one "+" allowed
Writes(t, n) ==
    LET digits == IF t # <<>> /\ Head(t) = "+" THEN Tail(t) ELSE t
    IN digits # <<>> /\ StripZeros(digits) = ToDecimal(n)

Base64Char(v) == CHOOSE c \in Base64Alphabet : Base64Val(c) = v

RECURSIVE Base64Encode(_)
Base64Encode(bytes) ==
    IF bytes = <<>> THEN <<>>
    ELSE IF Len(bytes) = 1
    THEN <<Base64Char(bytes[1] \div 4), Base64Char((bytes[1] % 4) * 16), "=", "=">>
    ELSE IF Len(bytes) = 2
    THEN <<Base64Char(bytes[1] \div 4),
           Base64Char(((bytes[1] % 4) * 16) + (bytes[2] \div 16)),
           Base64Char((bytes[2] % 16) * 4), "=">>
    ELSE <<Base64Char(bytes[1] \div 4),
           Base64Char(((bytes[1] % 4) * 16) + (bytes[2] \div 16)),
           Base64Char(((bytes[2] % 16) * 4) + (bytes[3] \div 64)),
           Base64Char(bytes[3] % 64)>> \o Base64Encode(Tail2(bytes, 4))

\* the text has the shape of the padded base64 form of HashLen bytes
HashShaped(t) ==
    LET pad == (3 - (HashLen % 3)) % 3
        n == 4 * ((HashLen + 2) \div 3)
    IN /\ Len(t) = n
       /\ \A i \in 1..n : IF i > n - pad THEN t[i] = "=" ELSE t[i] \in Base64Alphabet
       /\ pad = 2 => Base64Val(t[n - 2]) % 16 = 0
       /\ pad = 1 => Base64Val(t[n - 1]) % 4 = 0

\* the memo a (memo_type, memo) pair stands for, if any: "none", "Text", "Id",
\* "Hash", or "invalid"
MemoCase(mt, m) ==
    IF JIsNone(mt) /\ JIsNone(m) THEN "none"
    ELSE IF mt.t # "string" \/ m.t # "string" THEN "invalid"
    ELSE IF mt.v = TextT /\ Len(m.v) <= MemoTextMax THEN "Text"
    ELSE IF mt.v = IdT /\ \E n \in 0..IdMax : Writes(m.v, n) THEN "Id"
    ELSE IF mt.v = HashT /\ HashShaped(m.v) THEN "Hash"
    ELSE "invalid"

\* the account id text is the string-encoded id of a key, within whitespace
AccountValid(j) ==
    /\ j.t = "string"
    /\ \E k \in Keys, i \in 0..Len(j.v), l \in 0..Len(j.v) :
          j.v = [x \in 1..i |-> " "] \o account_id(k) \o [x \in 1..l |-> " "]

\* C3: for a body with a valid account id, the decoder yields no memo when
\* memo_type and memo are both absent, the Text, Id or Hash memo the pair
\* stands for when it is valid, and an error in every other case.
C3_MemoDisambiguation ==
    (pc = "done" /\ body.bytes.kind = "object"
     /\ body.bytes.stellar_address.t = "string" /\ AccountValid(body.bytes.account_id))
        => LET mt == body.bytes.memo_type
               m == body.bytes.memo
               c == MemoCase(mt, m)
           IN /\ c = "invalid" => result.tag = "Err"
              /\ c = "none" => (result.tag = "Ok" /\ result.v.memo = NoValue)
              /\ c = "Text"
                    => (result.tag = "Ok"
                        /\ result.v.memo = Some([kind |-> "Text", v |-> m.v]))
              /\ c = "Id"
                    => /\ result.tag = "Ok"
                       /\ result.v.memo # NoValue
                       /\ result.v.memo.v.kind = "Id"
                       /\ result.v.memo.v.v \in 0..IdMax
                       /\ Writes(m.v, result.v.memo.v.v)
              /\ c = "Hash"
                    => /\ result.tag = "Ok"
                       /\ result.v.memo # NoValue
                       /\ result.v.memo.v.kind = "Hash"
                       /\ Len(result.v.memo.v.v) = HashLen
                       /\ Base64Encode(result.v.memo.v.v) = m.v

C3_Witness ==
    /\ pc = "done"
    /\ body.bytes.kind = "object"
    /\ body.bytes.memo_type = JString(HashT)
    /\ result.tag = "Ok"
    /\ result.v.memo # NoValue
    /\ result.v.memo.v.kind = "Hash"
    /\ \E i \in 1..Len(result.v.memo.v.v) : result.v.memo.v.v[i] # 0

C3_WitnessRejected ==
    /\ pc = "done"
    /\ body.bytes.kind = "object"
    /\ AccountValid(body.bytes.account_id)
    /\ body.bytes.memo_type = JString(IdT)
    /\ body.bytes.memo = JAbsent
    /\ result.tag = "Err"

\* C9: the decoder returns a record exactly when the body is an object with
\* string stellar_address and account_id, string-or-absent memo fields, a
\* valid account id and a valid memo pair; the record is then complete, and in
\* every other case the result is an error carrying no record.
C9_AllOrNothing ==
    pc = "done"
        => LET b == body.bytes
               good == /\ b.kind = "object"
                       /\ b.stellar_address.t = "string"
                       /\ AccountValid(b.account_id)
                       /\ MemoCase(b.memo_type, b.memo) # "invalid"
           IN /\ result.tag = "Ok" <=> good
              /\ ~good => (result.tag = "Err" /\ DOMAIN result = {"tag", "err", "msg"})
              /\ good
                    => /\ DOMAIN result.v = {"stellar_address", "account_id", "memo"}
                       /\ result.v.stellar_address = b.stellar_address.v
                       /\ result.v.account_id \in Keys
                       /\ (result.v.memo = NoValue)
                              <=> (MemoCase(b.memo_type, b.memo) = "none")

C9_Witness ==
    /\ pc = "done"
    /\ body.bytes.kind = "object"
    /\ body.bytes.stellar_address.t = "string"
    /\ AccountValid(body.bytes.account_id)
    /\ body.bytes.account_id.v # trim(body.bytes.account_id.v)
    /\ MemoCase(body.bytes.memo_type, body.bytes.memo) = "invalid"
    /\ result.tag = "Err"

====
